---------------------------- MODULE Spec2Model ----------------------------
(***************************************************************************)
(* A model of qiskit/primitives/backend_estimator_v2.py: BackendEstimatorV2 *)
(* and its helper functions.                                               *)
(*                                                                         *)
(* The module holds one specification per component of the estimator:      *)
(*   SpecRun          run / _validate_pubs / _run / _run_pubs /            *)
(*                    _run_circuits / _prepare_counts                      *)
(*   SpecExpval       _pauli_expval_with_variance                          *)
(*   SpecPostprocess  _postprocess_pub                                     *)
(*   SpecMeasure      _create_measurement_circuits / _measurement_circuit  *)
(*   SpecRunFailing   SpecRun with the failures that leave _run            *)
(*   SpecBatch        _run_pubs on one batch: _preprocess_pub,             *)
(*                    _bind_and_add_measurements, _calc_expval_map         *)
(* Each specification moves only its own variables; the others stay at     *)
(* their idle values.                                                      *)
(***************************************************************************)
EXTENDS Integers, Sequences, FiniteSets, TLC

(***************************************************************************)
(* Bounds of the model.                                                    *)
(***************************************************************************)
\* longest list of pubs given to run
MaxPubs == 3
\* largest number of qubits of a circuit, and of classical bits in the keys
\* of a histogram
MaxQubits == 2
\* largest number of distinct outcomes in a histogram
MaxOutcomes == 2
\* largest frequency of one outcome
MaxFreq == 2
\* largest size of the one dimension of a parameter or observables array
MaxDim == 2
\* largest number of Paulis to observe at one binding index
MaxOps == 2
\* largest backend.max_circuits tried (0 stands for None / 0: unlimited)
MaxCapacity == 2

VARIABLES
    \* ---- run / _validate_pubs / _run ----
    pubs,          \* coerced_pubs: the list of EstimatorPub given to run
    max_circuits,  \* backend.max_circuits (0: None or 0)
    rpc,           \* position in run / _run
    vIdx,          \* i of the loop of _validate_pubs
    gIdx,          \* i of the first loop of _run
    pub_dict,      \* _run's pub_dict, entries in insertion order
    bIdx,          \* position of the second loop of _run in pub_dict.items()
    results,       \* _run's results list (None or a PubResult per pub)
    submitted,     \* job._submit() has been called
    dispatches,    \* the calls of _run_pubs made so far: (shots, pub indices)
    backendCalls,  \* the calls of backend.run made so far: (shots, circuits)
    returned,      \* the PrimitiveResult returned by _run (None before)
    \* ---- _run_pubs / _run_circuits / _prepare_counts ----
    flat_circuits, \* the circuits of the batch, as _run_circuits holds them
    metadata,      \* _run_circuits' metadata list
    pos,           \* pos of the chunking loop of _run_circuits
    jobs,          \* the jobs backend.run has returned
    run_result,    \* the list of Result objects _run_circuits returns
    counts,        \* the flat list _prepare_counts returns
    \* ---- _pauli_expval_with_variance ----
    est_counts,    \* counts: the items (bitstring, freq) of the histogram
    est_paulis,    \* paulis: the co-measured basis-local operators
    epc,           \* position in _pauli_expval_with_variance
    eIdx,          \* position of the loop over counts.items()
    expvals,       \* the expvals array
    denom,         \* total shots seen so far
    variances,     \* the variances array (None before it is computed)
    \* ---- _preprocess_pub (broadcasting) / _postprocess_pub ----
    param_shape,   \* pub.parameter_values.shape
    observables,   \* pub.observables: an array of operator sums
    bc_param_ind,  \* data.parameter_indices (broadcast)
    bc_obs,        \* data.observables (broadcast)
    expval_map,    \* (param_index, label) -> (expval, variance)
    post_shots,    \* shots
    ppc,           \* position in _postprocess_pub
    pIdx,          \* position of the loop over np.ndindex(*bc_param_ind.shape)
    evs,           \* the evs array
    err_accum,     \* the array the code names variances
    stds,          \* the stds array (None before it is computed)
    \* ---- _create_measurement_circuits / _measurement_circuit ----
    observable,       \* the PauliList to observe (sorted labels)
    num_qubits,       \* circuit.num_qubits
    circuit_cregs,    \* the names of the classical registers of circuit
    abelian_grouping, \* self._options.abelian_grouping
    meas_param_index, \* param_index (only passed to metadata)
    mpc,              \* position in _create_measurement_circuits
    meas_circuits,    \* meas_circuits, after the pass manager has run
    cIdx,             \* position of the loop that combines the circuits
    preprocessed_circuits, \* preprocessed_circuits
    \* ---- _run_pubs on one batch of pubs with their contents ----
    batch_pubs,        \* pubs: the pubs of the batch
    preprocessed_data, \* preprocessed_data
    batch_start,       \* start of the second loop of _run_pubs
    bpc,               \* position in _run_pubs
    batch_maps         \* per pub postprocessed: its slice and its expval_map

runVars == <<pubs, max_circuits, rpc, vIdx, gIdx, pub_dict, bIdx, results,
             submitted, dispatches, backendCalls, returned>>

circVars == <<flat_circuits, metadata, pos, jobs, run_result, counts>>

estVars == <<est_counts, est_paulis, epc, eIdx, expvals, denom, variances>>

postVars == <<param_shape, observables, bc_param_ind, bc_obs, expval_map,
              post_shots, ppc, pIdx, evs, err_accum, stds>>

measVars == <<observable, num_qubits, circuit_cregs, abelian_grouping,
              meas_param_index, mpc, meas_circuits, cIdx,
              preprocessed_circuits>>

batchVars == <<batch_pubs, preprocessed_data, batch_start, bpc, batch_maps>>

\* what run / _run and the functions they call leave alone
outsideRun == <<estVars, postVars, measVars, batchVars>>
\* what _pauli_expval_with_variance leaves alone
outsideExpval == <<runVars, circVars, postVars, measVars, batchVars>>
\* what _postprocess_pub leaves alone
outsidePost == <<runVars, circVars, estVars, measVars, batchVars>>
\* what _create_measurement_circuits leaves alone
outsideMeas == <<runVars, circVars, estVars, postVars, batchVars>>
\* what _run_pubs on a batch of pubs with their contents leaves alone
outsideBatch == <<runVars, estVars, postVars, measVars>>

vars == <<runVars, circVars, estVars, postVars, measVars, batchVars>>

(***************************************************************************)
(* Generic helpers.                                                        *)
(***************************************************************************)
None == <<>>
Some(x) == <<x>>

Min(a, b) == IF a <= b THEN a ELSE b

RECURSIVE SortedSeq(_)
\* the elements of a finite set of integers, in increasing order
SortedSeq(S) ==
    IF S = {} THEN <<>>
    ELSE LET least == CHOOSE a \in S : \A b \in S : a <= b
         IN  <<least>> \o SortedSeq(S \ {least})

\* all sequences over S of length at most n
SeqsUpTo(S, n) == UNION {[1..k -> S] : k \in 0..n}

RECURSIVE Flatten(_)
\* concatenation of a sequence of sequences (list.extend in a loop)
Flatten(ss) == IF ss = <<>> THEN <<>> ELSE Head(ss) \o Flatten(Tail(ss))

\* ceil(a / b) for integers a >= 0, b > 0
CeilDiv(a, b) == (a + b - 1) \div b

(***************************************************************************)
(* Pubs.  A precision is the rational n/d (d > 0); a pub carries its        *)
(* precision and its circuit, the circuit standing for everything else of  *)
(* the pub (observables, parameter values).                                *)
(***************************************************************************)
Prec(n, d) == [n |-> n, d |-> d]

Precisions == {Prec(-1, 2), Prec(0, 1), Prec(1, 2), Prec(2, 3), Prec(3, 5)}

Circuits == {"a", "b"}

Pubs == [precision : Precisions, circuit : Circuits]

\* pub.precision <= 0.0
NonPositiveStrict(p) == p.n < 0
NonPositive(p) == p.n <= 0

\* int(math.ceil(1.0 / pub.precision**2))
ShotsFloor(p) == (p.d * p.d) \div (p.n * p.n)
Shots(p) == CeilDiv(p.d * p.d, p.n * p.n)

\* len(data.circuits) of _preprocess_pub(pub): the number of program variants
NumVariants(pub) == IF pub.circuit = "a" THEN 1 ELSE 2

\* A circuit.metadata dict is a set of <<key, value>> pairs; {} is the empty dict.
EmptyMetadata == {}

\* data.circuits of _preprocess_pub(pubs[i]): one program variant per
\* measurement group.  body is the identity of the circuit object; the metadata
\* stands for {"orig_paulis", "meas_paulis", "param_index"} of that variant.
PubVariants(i) ==
    [k \in 1..NumVariants(pubs[i]) |->
        [body |-> [pub |-> i, variant |-> k],
         metadata |-> {<<"pub", i>>, <<"group", k>>}]]

\* s[a:b] of Python (0-based, end exclusive)
Slice(s, a, b) == SubSeq(s, a + 1, Min(b, Len(s)))

(***************************************************************************)
(* _run: pub_dict and the reconstruction of results.                       *)
(***************************************************************************)
\* pub_dict[shots].append(i) on a defaultdict(list) that keeps insertion order
DictAppend(pd, shots, i) ==
    IF \E e \in 1..Len(pd) : pd[e].shots = shots
    THEN [e \in 1..Len(pd) |->
            IF pd[e].shots = shots
            THEN [pd[e] EXCEPT !.lst = Append(@, i)]
            ELSE pd[e]]
    ELSE Append(pd, [shots |-> shots, lst |-> <<i>>])

\* for i, pub_result in zip(lst, pub_results): results[k] = pub_result
ReconstructByPosition(res, lst, pub_results) ==
    [i \in 1..Len(res) |->
        IF i <= Min(Len(lst), Len(pub_results))
        THEN Some(pub_results[i])
        ELSE res[i]]
\* for i, pub_result in zip(lst, pub_results): results[i] = pub_result
Reconstruct(res, lst, pub_results) ==
    [i \in 1..Len(res) |->
        LET ks == {k \in 1..Min(Len(lst), Len(pub_results)) : lst[k] = i}
        IN  IF ks = {} THEN res[i]
            ELSE Some(pub_results[CHOOSE k \in ks : \A j \in ks : j <= k])]

\* PrimitiveResult(results, metadata={"version": 2})
PrimitiveResult(res) ==
    [pub_results |-> res, metadata |-> {<<"version", 2>>}]

(***************************************************************************)
(* The backend (external): backend.run(chunk, shots=...) returns a job     *)
(* whose result() holds one experiment result per circuit of the chunk, in *)
(* the chunk's order.  The histogram of a circuit is named by the circuit  *)
(* that was run and the shots it was run with.                             *)
(***************************************************************************)
CountsOf(circ, shots) == [of |-> circ.body, shots |-> shots]

BackendRun(chunk, shots) ==
    [results |-> [k \in 1..Len(chunk) |-> CountsOf(chunk[k], shots)]]

\* Result.get_counts(): the histogram itself for a single experiment, a list
\* of histograms otherwise
GetCounts(res) ==
    IF Len(res.results) = 1
    THEN [is_list |-> FALSE, value |-> res.results[1]]
    ELSE [is_list |-> TRUE, value |-> res.results]

(***************************************************************************)
(* _run_circuits and _prepare_counts.                                      *)
(***************************************************************************)
\* metadata.append(circ.metadata) for every circuit, before it is cleared
CollectMetadata(circs) == [k \in 1..Len(circs) |-> circs[k].metadata]

\* circ.metadata = {} for every circuit (clear_metadata is True)
ClearMetadata(circs) ==
    [k \in 1..Len(circs) |-> [circs[k] EXCEPT !.metadata = EmptyMetadata]]

\* circuits[pos : pos + max_circuits]
ChunkShort(circs, p, m) == Slice(circs, p, p + m - 1)
Chunk(circs, p, m) == Slice(circs, p, p + m)

\* count = res.get_counts(); if not isinstance(count, list): count = [count]
AsList(c) == IF c.is_list THEN c.value ELSE <<c.value>>

\* _prepare_counts(results)
PrepareCounts(res) ==
    Flatten([r \in 1..Len(res) |-> AsList(GetCounts(res[r]))])

(***************************************************************************)
(* _run_pubs.                                                              *)
(***************************************************************************)
\* flat_circuits of the first loop of _run_pubs
FlatCircuits(lst) == Flatten([k \in 1..Len(lst) |-> PubVariants(lst[k])])

\* _postprocess_pub(pub, _calc_expval_map(counts[start:end],
\* metadata[start:end]), data, shots): the PubResult, with the histograms and
\* metadata it was computed from
PubResultOf(pub, shots, cnts, meta) ==
    [data |-> [counts |-> cnts, metadata |-> meta],
     metadata |-> [target_precision |-> pub.precision,
                   shots |-> shots,
                   circuit_metadata |-> pub.circuit]]

RECURSIVE PostprocessLoop(_, _, _, _, _)
\* the second loop of _run_pubs: start = 0; end = start + len(data.circuits)
PostprocessLoop(lst, start, cnts, meta, shots) ==
    IF lst = <<>> THEN <<>>
    ELSE LET end == start + Len(PubVariants(Head(lst)))
         IN  <<PubResultOf(pubs[Head(lst)], shots,
                           Slice(cnts, start, end), Slice(meta, start, end))>>
             \o PostprocessLoop(Tail(lst), end, cnts, meta, shots)

\* _run_pubs on a batch of pubs with their contents is not in use
BatchIdle ==
    /\ batch_pubs = <<>>
    /\ preprocessed_data = <<>>
    /\ batch_start = 0
    /\ bpc = "idle"
    /\ batch_maps = <<>>

\* the estimator is not in use
EstIdle ==
    /\ est_counts = <<>>
    /\ est_paulis = <<>>
    /\ epc = "idle"
    /\ eIdx = 1
    /\ expvals = <<>>
    /\ denom = 0
    /\ variances = None

\* _create_measurement_circuits is not in use
MeasIdle ==
    /\ observable = <<>>
    /\ num_qubits = 0
    /\ circuit_cregs = {}
    /\ abelian_grouping = TRUE
    /\ meas_param_index = <<>>
    /\ mpc = "idle"
    /\ meas_circuits = <<>>
    /\ cIdx = 1
    /\ preprocessed_circuits = <<>>

\* _postprocess_pub is not in use
PostIdle ==
    /\ param_shape = <<>>
    /\ observables = <<>>
    /\ bc_param_ind = <<>>
    /\ bc_obs = <<>>
    /\ expval_map = <<>>
    /\ post_shots = 0
    /\ ppc = "idle"
    /\ pIdx = 1
    /\ evs = <<>>
    /\ err_accum = <<>>
    /\ stds = None

\* run / _run is not in use
RunIdle ==
    /\ pubs = <<>>
    /\ max_circuits = 0
    /\ rpc = "idle"
    /\ vIdx = 1
    /\ gIdx = 1
    /\ pub_dict = <<>>
    /\ bIdx = 1
    /\ results = <<>>
    /\ submitted = FALSE
    /\ dispatches = <<>>
    /\ backendCalls = <<>>
    /\ returned = None

(***************************************************************************)
(* Initial state: run has been given a list of coerced pubs, on a backend  *)
(* with some max_circuits.                                                 *)
(***************************************************************************)
CircIdle ==
    /\ flat_circuits = <<>>
    /\ metadata = <<>>
    /\ pos = 0
    /\ jobs = <<>>
    /\ run_result = <<>>
    /\ counts = <<>>

InitRun ==
    /\ pubs \in SeqsUpTo(Pubs, MaxPubs)
    /\ max_circuits \in 0..MaxCapacity
    /\ rpc = "validate"
    /\ vIdx = 1
    /\ gIdx = 1
    /\ pub_dict = <<>>
    /\ bIdx = 1
    /\ results = <<>>
    /\ submitted = FALSE
    /\ dispatches = <<>>
    /\ backendCalls = <<>>
    /\ returned = None
    /\ CircIdle
    /\ EstIdle
    /\ PostIdle
    /\ MeasIdle
    /\ BatchIdle

(***************************************************************************)
(* run and _validate_pubs.                                                 *)
(***************************************************************************)
\* one iteration of the loop of _validate_pubs
ValidatePub ==
    /\ rpc = "validate"
    /\ vIdx <= Len(pubs)
    /\ IF NonPositive(pubs[vIdx].precision)
       THEN rpc' = "error" /\ vIdx' = vIdx       \* raise ValueError
       ELSE rpc' = rpc /\ vIdx' = vIdx + 1
    /\ UNCHANGED <<pubs, max_circuits, gIdx, pub_dict, bIdx, results,
                   submitted, dispatches, backendCalls, returned, circVars>>
    /\ UNCHANGED outsideRun

\* job = PrimitiveJob(self._run, coerced_pubs); job._submit()
Submit ==
    /\ rpc = "validate"
    /\ vIdx > Len(pubs)
    /\ submitted' = TRUE
    /\ rpc' = "group"
    /\ UNCHANGED <<pubs, max_circuits, vIdx, gIdx, pub_dict, bIdx, results,
                   dispatches, backendCalls, returned, circVars>>
    /\ UNCHANGED outsideRun

(***************************************************************************)
(* _run.                                                                   *)
(***************************************************************************)
\* one iteration of the first loop of _run
GroupPub ==
    /\ rpc = "group"
    /\ gIdx <= Len(pubs)
    /\ pub_dict' = DictAppend(pub_dict, Shots(pubs[gIdx].precision), gIdx)
    /\ gIdx' = gIdx + 1
    /\ UNCHANGED <<pubs, max_circuits, rpc, vIdx, bIdx, results, submitted,
                   dispatches, backendCalls, returned, circVars>>
    /\ UNCHANGED outsideRun

\* results = [None] * len(pubs)
AllocResults ==
    /\ rpc = "group"
    /\ gIdx > Len(pubs)
    /\ results' = [i \in 1..Len(pubs) |-> None]
    /\ bIdx' = 1
    /\ rpc' = "batches"
    /\ UNCHANGED <<pubs, max_circuits, vIdx, gIdx, pub_dict, submitted,
                   dispatches, backendCalls, returned, circVars>>
    /\ UNCHANGED outsideRun

\* the call self._run_pubs([pubs[i] for i in lst], shots) and the first loop
\* of _run_pubs
Dispatch ==
    /\ rpc = "batches"
    /\ bIdx <= Len(pub_dict)
    /\ dispatches' = Append(dispatches, pub_dict[bIdx])
    /\ flat_circuits' = FlatCircuits(pub_dict[bIdx].lst)
    /\ rpc' = "run_circuits"
    /\ UNCHANGED <<pubs, max_circuits, vIdx, gIdx, pub_dict, bIdx, results,
                   submitted, backendCalls, returned,
                   metadata, pos, jobs, run_result, counts>>
    /\ UNCHANGED outsideRun

\* _run_circuits up to the branch on max_circuits
EnterRunCircuits ==
    /\ rpc = "run_circuits"
    /\ metadata' = CollectMetadata(flat_circuits)
    /\ flat_circuits' = ClearMetadata(flat_circuits)
    /\ pos' = 0
    /\ jobs' = <<>>
    /\ rpc' = IF max_circuits # 0 THEN "submit" ELSE "submit_all"
    /\ UNCHANGED <<pubs, max_circuits, vIdx, gIdx, pub_dict, bIdx, results,
                   submitted, dispatches, backendCalls, returned,
                   run_result, counts>>
    /\ UNCHANGED outsideRun

\* one backend.run(circuits[pos : pos + max_circuits], **run_options)
SubmitChunk ==
    /\ rpc = "submit"
    /\ pos < Len(flat_circuits)
    /\ LET chunk == Chunk(flat_circuits, pos, max_circuits)
           shots == pub_dict[bIdx].shots
       IN  /\ jobs' = Append(jobs, BackendRun(chunk, shots))
           /\ backendCalls' =
                Append(backendCalls, [shots |-> shots, circuits |-> chunk])
    /\ pos' = pos + max_circuits
    /\ UNCHANGED <<pubs, max_circuits, rpc, vIdx, gIdx, pub_dict, bIdx,
                   results, submitted, dispatches, returned,
                   flat_circuits, metadata, run_result, counts>>
    /\ UNCHANGED outsideRun

\* result = [x.result() for x in jobs]
CollectResults ==
    /\ rpc = "submit"
    /\ pos >= Len(flat_circuits)
    /\ run_result' = jobs
    /\ rpc' = "counts"
    /\ UNCHANGED <<pubs, max_circuits, vIdx, gIdx, pub_dict, bIdx, results,
                   submitted, dispatches, backendCalls, returned,
                   flat_circuits, metadata, pos, jobs, counts>>
    /\ UNCHANGED outsideRun

\* result = [backend.run(circuits, **run_options).result()]
SubmitAll ==
    /\ rpc = "submit_all"
    /\ LET shots == pub_dict[bIdx].shots
       IN  /\ run_result' = <<BackendRun(flat_circuits, shots)>>
           /\ backendCalls' =
                Append(backendCalls,
                       [shots |-> shots, circuits |-> flat_circuits])
    /\ rpc' = "counts"
    /\ UNCHANGED <<pubs, max_circuits, vIdx, gIdx, pub_dict, bIdx, results,
                   submitted, dispatches, returned,
                   flat_circuits, metadata, pos, jobs, counts>>
    /\ UNCHANGED outsideRun

\* counts = _prepare_counts(run_result)
PrepareCountsStep ==
    /\ rpc = "counts"
    /\ counts' = PrepareCounts(run_result)
    /\ rpc' = "post"
    /\ UNCHANGED <<pubs, max_circuits, vIdx, gIdx, pub_dict, bIdx, results,
                   submitted, dispatches, backendCalls, returned,
                   flat_circuits, metadata, pos, jobs, run_result>>
    /\ UNCHANGED outsideRun

\* the second loop of _run_pubs, its return, and the zip loop of _run
Postprocess ==
    /\ rpc = "post"
    /\ LET lst == pub_dict[bIdx].lst
           pub_results ==
               PostprocessLoop(lst, 0, counts, metadata, pub_dict[bIdx].shots)
       IN  results' = Reconstruct(results, lst, pub_results)
    /\ bIdx' = bIdx + 1
    /\ rpc' = "batches"
    /\ UNCHANGED <<pubs, max_circuits, vIdx, gIdx, pub_dict, submitted,
                   dispatches, backendCalls, returned, circVars>>
    /\ UNCHANGED outsideRun

\* return PrimitiveResult(results, metadata={"version": 2})
Return ==
    /\ rpc = "batches"
    /\ bIdx > Len(pub_dict)
    /\ returned' = Some(PrimitiveResult(results))
    /\ rpc' = "done"
    /\ UNCHANGED <<pubs, max_circuits, vIdx, gIdx, pub_dict, bIdx, results,
                   submitted, dispatches, backendCalls, circVars>>
    /\ UNCHANGED outsideRun

NextRun ==
    \/ ValidatePub
    \/ Submit
    \/ GroupPub
    \/ AllocResults
    \/ Dispatch
    \/ EnterRunCircuits
    \/ SubmitChunk
    \/ CollectResults
    \/ SubmitAll
    \/ PrepareCountsStep
    \/ Postprocess
    \/ Return

SpecRun == InitRun /\ [][NextRun]_vars

(***************************************************************************)
(* _run with failures.  _run and _run_pubs have no exception handler, so   *)
(* a QiskitError of _create_measurement_circuits (raised while a pub of    *)
(* the batch is preprocessed) and an error of the backend (raised by       *)
(* backend.run or by the job's result()) leave _run at once.               *)
(***************************************************************************)
\* what the caller of _run gets when an exception leaves it: the return
\* statement is never reached, whatever the results list holds
RaisedOutReturnsResults(res) == Some(PrimitiveResult(res))
RaisedOut(res) == None

\* self._run_pubs(...) is called and _preprocess_pub of one of the pubs of
\* the batch raises QiskitError (register-name conflict)
PreprocessRaises ==
    /\ rpc = "batches"
    /\ bIdx <= Len(pub_dict)
    /\ dispatches' = Append(dispatches, pub_dict[bIdx])
    /\ returned' = RaisedOut(results)
    /\ rpc' = "failed"
    /\ UNCHANGED <<pubs, max_circuits, vIdx, gIdx, pub_dict, bIdx, results,
                   submitted, backendCalls, circVars>>
    /\ UNCHANGED outsideRun

\* backend.run(circuits[pos : pos + max_circuits], **run_options) raises
SubmitChunkRaises ==
    /\ rpc = "submit"
    /\ pos < Len(flat_circuits)
    /\ backendCalls' =
          Append(backendCalls,
                 [shots |-> pub_dict[bIdx].shots,
                  circuits |-> Chunk(flat_circuits, pos, max_circuits)])
    /\ returned' = RaisedOut(results)
    /\ rpc' = "failed"
    /\ UNCHANGED <<pubs, max_circuits, vIdx, gIdx, pub_dict, bIdx, results,
                   submitted, dispatches, circVars>>
    /\ UNCHANGED outsideRun

\* x.result() raises for one of the jobs
CollectResultsRaises ==
    /\ rpc = "submit"
    /\ pos >= Len(flat_circuits)
    /\ returned' = RaisedOut(results)
    /\ rpc' = "failed"
    /\ UNCHANGED <<pubs, max_circuits, vIdx, gIdx, pub_dict, bIdx, results,
                   submitted, dispatches, backendCalls, circVars>>
    /\ UNCHANGED outsideRun

\* backend.run(circuits, **run_options).result() raises
SubmitAllRaises ==
    /\ rpc = "submit_all"
    /\ backendCalls' =
          Append(backendCalls,
                 [shots |-> pub_dict[bIdx].shots, circuits |-> flat_circuits])
    /\ returned' = RaisedOut(results)
    /\ rpc' = "failed"
    /\ UNCHANGED <<pubs, max_circuits, vIdx, gIdx, pub_dict, bIdx, results,
                   submitted, dispatches, circVars>>
    /\ UNCHANGED outsideRun

NextRunFailing ==
    \/ NextRun
    \/ PreprocessRaises
    \/ SubmitChunkRaises
    \/ CollectResultsRaises
    \/ SubmitAllRaises

SpecRunFailing == InitRun /\ [][NextRunFailing]_vars


(***************************************************************************)
(* Paulis and histograms.  A Pauli over nq sites is its symplectic pair of *)
(* boolean arrays (z, x), index i + 1 for site i: I = (F, F), X = (F, T),  *)
(* Z = (T, F), Y = (T, T).  A histogram key is a sequence of the           *)
(* characters "0", "1" and " ": the bits of the measurement register, most *)
(* significant first, then, after a space, the other classical registers.  *)
(***************************************************************************)
\* the k-th Pauli over nq sites (k in 0 .. 4^nq - 1) in the order of the
\* labels: site i is digit i of k in base 4, with 0 = I, 1 = X, 2 = Y, 3 = Z
PauliOfIndex(k, nq) ==
    [z |-> [i \in 1..nq |-> ((k \div (4 ^ (i - 1))) % 4) \in {2, 3}],
     x |-> [i \in 1..nq |-> ((k \div (4 ^ (i - 1))) % 4) \in {1, 2}]]

\* the PauliList of all Paulis over nq sites
AllPaulis(nq) == [k \in 1..(4 ^ nq) |-> PauliOfIndex(k - 1, nq)]

\* the binary digits of v, most significant first, over len characters
Bits(v, len) ==
    [i \in 1..len |-> IF (v \div (2 ^ (len - i))) % 2 = 1 THEN "1" ELSE "0"]

\* a key of a Counts object of a circuit whose measurement register has nq
\* bits: the register alone (layout 1), or followed by the bit of one other
\* classical register of the circuit (layout 2); v numbers the keys
Key(nq, layout, v) ==
    IF layout = 1 THEN Bits(v, nq)
    ELSE Bits(v \div 2, nq) \o <<" ", Bits(v % 2, 1)[1]>>

IsBit(c) == c # " "

RECURSIVE ParseBinary(_)
\* int(s, 2)
ParseBinary(s) ==
    IF s = <<>> THEN 0
    ELSE 2 * ParseBinary(SubSeq(s, 1, Len(s) - 1))
         + (IF s[Len(s)] = "1" THEN 1 ELSE 0)

\* bin_outcome.split(" ", 1)[0] if " " in bin_outcome else bin_outcome
SplitOutcome(key) ==
    IF \E i \in 1..Len(key) : key[i] = " "
    THEN SubSeq(key, 1, (CHOOSE i \in 1..Len(key) :
                            /\ key[i] = " "
                            /\ \A j \in 1..(i - 1) : key[j] # " ") - 1)
    ELSE key

\* nonid = paulis.z | paulis.x, for one Pauli
NonId(p) == [i \in 1..Len(p.z) |-> p.z[i] \/ p.x[i]]

RECURSIVE PackBitsBig(_)
PackBitsBig(bits) ==
    IF bits = <<>> THEN 0
    ELSE 2 * PackBitsBig(SubSeq(bits, 1, Len(bits) - 1))
         + (IF bits[Len(bits)] THEN 1 ELSE 0)
RECURSIVE PackBits(_)
\* np.packbits(nonid, bitorder="little") @ power_uint8: bit i has weight 2^i
PackBits(bits) ==
    IF bits = <<>> THEN 0
    ELSE (IF Head(bits) THEN 1 ELSE 0) + 2 * PackBits(Tail(bits))

\* _paulis2inds(paulis)
Paulis2Inds(paulis) == [k \in 1..Len(paulis) |-> PackBits(NonId(paulis[k]))]

RECURSIVE BitAnd(_, _)
\* a & b for non-negative integers
BitAnd(a, b) ==
    IF a = 0 \/ b = 0 THEN 0
    ELSE (a % 2) * (b % 2) + 2 * BitAnd(a \div 2, b \div 2)

RECURSIVE PopCount(_)
\* bin(integer).count("1")
PopCount(n) == IF n = 0 THEN 0 ELSE (n % 2) + PopCount(n \div 2)

\* _parity(integer)
Parity(n) == PopCount(n) % 2

\* (-1) ** _parity(diag_inds[k] & outcome)
Coeff(ind, outcome) == IF Parity(BitAnd(ind, outcome)) = 0 THEN 1 ELSE -1

(***************************************************************************)
(* Floating-point values are kept exact: a finite value is the rational    *)
(* n/d (d > 0), and nan and inf are what numpy's division by zero gives.   *)
(***************************************************************************)
Rat(n, d) == [kind |-> "finite", n |-> n, d |-> d]
NaN == [kind |-> "nan", n |-> 0, d |-> 1]
Inf(sign) == [kind |-> "inf", n |-> sign, d |-> 1]

\* expvals /= denom on a numpy float array: x / 0 is nan for x = 0 and
\* +-inf otherwise (a RuntimeWarning, no exception)
Divide(acc, total) ==
    IF total = 0
    THEN IF acc = 0 THEN NaN ELSE Inf(IF acc > 0 THEN 1 ELSE -1)
    ELSE Rat(acc, total)

\* variances = 1 - expvals**2, for one entry
VarianceOf(e) ==
    IF e.kind = "nan" THEN NaN
    ELSE IF e.kind = "inf" THEN Inf(-1)
    ELSE Rat(e.d * e.d - e.n * e.n, e.d * e.d)

(***************************************************************************)
(* _pauli_expval_with_variance(counts, paulis).                            *)
(***************************************************************************)
\* the Counts objects with at most n outcomes of circuits whose measurement
\* register has nq bits: the items of each, distinct keys in increasing order
Histograms(nq, layout, n) ==
    UNION {{[i \in 1..Len(ks) |-> [key |-> Key(nq, layout, ks[i]), freq |-> f[i]]] :
              f \in [1..Len(ks) -> 0..MaxFreq]}
           : ks \in {SortedSeq(T) :
                       T \in {U \in SUBSET (0..(2 ^ (nq + layout - 1) - 1)) :
                                 Cardinality(U) <= n}}}

InitExpval ==
    /\ \E nq \in 1..MaxQubits, layout \in {1, 2} :
          /\ nq + layout - 1 <= MaxQubits
          /\ est_paulis = AllPaulis(nq)
          /\ est_counts \in Histograms(nq, layout, MaxOutcomes)
    /\ epc = "loop"
    /\ eIdx = 1
    /\ expvals = [k \in 1..Len(est_paulis) |-> 0]
    /\ denom = 0
    /\ variances = None
    /\ RunIdle
    /\ CircIdle
    /\ PostIdle
    /\ MeasIdle
    /\ BatchIdle

\* one iteration of the loop over counts.items()
CountOutcome ==
    /\ epc = "loop"
    /\ eIdx <= Len(est_counts)
    /\ LET diag_inds == Paulis2Inds(est_paulis)
           outcome == ParseBinary(SplitOutcome(est_counts[eIdx].key))
           freq == est_counts[eIdx].freq
       IN  /\ denom' = denom + freq
           /\ expvals' = [k \in 1..Len(est_paulis) |->
                            expvals[k] + freq * Coeff(diag_inds[k], outcome)]
    /\ eIdx' = eIdx + 1
    /\ UNCHANGED <<est_counts, est_paulis, epc, variances, outsideExpval>>

\* expvals /= denom; variances = 1 - expvals**2; return expvals, variances
DivideAndReturn ==
    /\ epc = "loop"
    /\ eIdx > Len(est_counts)
    /\ expvals' = [k \in 1..Len(est_paulis) |-> Divide(expvals[k], denom)]
    /\ variances' = Some([k \in 1..Len(est_paulis) |->
                            VarianceOf(Divide(expvals[k], denom))])
    /\ epc' = "returned"
    /\ UNCHANGED <<est_counts, est_paulis, eIdx, denom, outsideExpval>>

NextExpval ==
    \/ CountOutcome
    \/ DivideAndReturn

SpecExpval == InitExpval /\ [][NextExpval]_vars

(***************************************************************************)
(* Arrays and broadcasting (numpy).  An array is its shape and its data, a *)
(* function of the index tuples of np.ndindex(shape), 0-based.             *)
(***************************************************************************)
RECURSIVE IndexSeq(_)
\* list(np.ndindex(*shape)): the index tuples in C order
IndexSeq(shape) ==
    IF shape = <<>> THEN << <<>> >>
    ELSE LET sub == IndexSeq(Tail(shape))
         IN  Flatten([j \in 1..Head(shape) |->
                        [m \in 1..Len(sub) |-> <<j - 1>> \o sub[m]]])

Indices(shape) == {IndexSeq(shape)[m] : m \in 1..Len(IndexSeq(shape))}

\* a shape padded with leading 1s to rank r
PadShape(shape, r) ==
    [d \in 1..r |-> IF d <= r - Len(shape) THEN 1 ELSE shape[d - (r - Len(shape))]]

MaxRank(a, b) == IF Len(a) >= Len(b) THEN Len(a) ELSE Len(b)

\* the two shapes can be broadcast together
Compatible(a, b) ==
    LET r == MaxRank(a, b)
    IN  \A d \in 1..r :
           \/ PadShape(a, r)[d] = PadShape(b, r)[d]
           \/ PadShape(a, r)[d] = 1
           \/ PadShape(b, r)[d] = 1

\* the shape of np.broadcast_arrays(a, b)
BroadcastShape(a, b) ==
    LET r == MaxRank(a, b)
    IN  [d \in 1..r |-> IF PadShape(a, r)[d] = 1 THEN PadShape(b, r)[d]
                        ELSE PadShape(a, r)[d]]

\* the index of the source array that the index t of the broadcast reads
SourceIndex(shape, t) ==
    [d \in 1..Len(shape) |->
        IF shape[d] = 1 THEN 0 ELSE t[d + (Len(t) - Len(shape))]]

\* np.broadcast_to(arr, shape)
BroadcastTo(arr, shape) ==
    [shape |-> shape,
     data |-> [t \in Indices(shape) |-> arr.data[SourceIndex(arr.shape, t)]]]

\* np.fromiter(np.ndindex(param_shape), dtype=object).reshape(param_shape)
ParamIndices(shape) == [shape |-> shape, data |-> [t \in Indices(shape) |-> t]]

(***************************************************************************)
(* Numbers.  Rationals are Rat(n, d), not reduced; a coefficient is the    *)
(* Gaussian integer re + im*i; a complex value has rational parts.         *)
(***************************************************************************)
RatAdd(a, b) == Rat(a.n * b.d + b.n * a.d, a.d * b.d)
RatScale(k, a) == Rat(k * a.n, a.d)
RatEq(a, b) == a.n * b.d = b.n * a.d

Complex(re, im) == [re |-> re, im |-> im]

\* expval * coeff
ComplexProduct(e, coeff) == Complex(RatScale(coeff.re, e), RatScale(coeff.im, e))

\* evs[index] += value on an array of dtype float: the sum is cast to float,
\* which discards the imaginary part (numpy's ComplexWarning)
AddAssignFloat(x, value) == Complex(RatAdd(x.re, value.re), Rat(0, 1))

\* the exact square root of a perfect square
ISqrt(m) == CHOOSE r \in 0..m : r * r = m

\* np.abs(coeff), for a coefficient of integer modulus
AbsCoeff(coeff) == ISqrt(coeff.re * coeff.re + coeff.im * coeff.im)

\* variance**0.5, for a variance that is the square of a rational
SqrtRat(v) == Rat(ISqrt(v.n), ISqrt(v.d))

\* variances / np.sqrt(shots), for one entry and shots a perfect square
DivideBySqrtShots(a, shots) == Rat(a.n, a.d * ISqrt(shots))

(***************************************************************************)
(* The inputs of _postprocess_pub.                                         *)
(***************************************************************************)
Labels == <<"X", "Z">>

Coeffs == {Complex(1, 0), Complex(-2, 0), Complex(0, 1), Complex(3, 4)}

\* the operator sums: the items (label, coeff) of a dict, in label order
OperatorSums ==
    {<<[label |-> Labels[l], coeff |-> c]>> : l \in 1..Len(Labels), c \in Coeffs}
    \cup {<<[label |-> Labels[1], coeff |-> c1], [label |-> Labels[2], coeff |-> c2]>> :
            c1 \in Coeffs, c2 \in Coeffs}

\* the shapes of rank 0 and 1
Shapes == {<<>>} \cup {<<k>> : k \in 0..MaxDim}

\* the expectation values of the table: 3/5, -4/5, 0, -1, 1; their variances
\* 1 - e^2 are squares of rationals
TableExpvals == <<Rat(3, 5), Rat(-4, 5), Rat(0, 1), Rat(-1, 1), Rat(1, 1)>>

\* the rank of an index tuple among those of its shape (rank 0 or 1)
IndexRank(t) == IF t = <<>> THEN 0 ELSE t[1]

\* an expval_map as _calc_expval_map builds it for the bindings of shape ps:
\* the entries differ from key to key
ExpvalMapOf(ps) ==
    [key \in {<<t, Labels[l]>> : t \in Indices(ps), l \in 1..Len(Labels)} |->
        LET l == CHOOSE l \in 1..Len(Labels) : Labels[l] = key[2]
            e == TableExpvals[((2 * IndexRank(key[1]) + l - 1) % Len(TableExpvals)) + 1]
        IN  <<e, VarianceOf(e)>>]

\* the shot counts of the batches: perfect squares
PostShots == {1, 4}

InitPostprocess ==
    /\ \E ps \in Shapes, os \in Shapes :
          /\ Compatible(ps, os)
          /\ param_shape = ps
          /\ \E data \in [Indices(os) -> OperatorSums] :
                /\ observables = [shape |-> os, data |-> data]
                \* _preprocess_pub: np.broadcast_arrays(param_indices, observables)
                /\ bc_obs = BroadcastTo([shape |-> os, data |-> data],
                                        BroadcastShape(ps, os))
          /\ bc_param_ind = BroadcastTo(ParamIndices(ps), BroadcastShape(ps, os))
          /\ expval_map = ExpvalMapOf(ps)
    /\ post_shots \in PostShots
    /\ ppc = "loop"
    /\ pIdx = 1
    \* np.zeros_like(bc_param_ind, dtype=float), twice
    /\ evs = [t \in Indices(bc_param_ind.shape) |-> Complex(Rat(0, 1), Rat(0, 1))]
    /\ err_accum = [t \in Indices(bc_param_ind.shape) |-> Rat(0, 1)]
    /\ stds = None
    /\ RunIdle
    /\ CircIdle
    /\ EstIdle
    /\ MeasIdle
    /\ BatchIdle

RECURSIVE AccumulateEvs(_, _, _)
\* the inner loop of _postprocess_pub on evs[index]
AccumulateEvs(acc, items, param_index) ==
    IF items = <<>> THEN acc
    ELSE LET expval == expval_map[<<param_index, Head(items).label>>][1]
         IN  AccumulateEvs(
                AddAssignFloat(acc, ComplexProduct(expval, Head(items).coeff)),
                Tail(items), param_index)

RECURSIVE AccumulateErr(_, _, _)
\* the inner loop of _postprocess_pub on variances[index]
AccumulateErr(acc, items, param_index) ==
    IF items = <<>> THEN acc
    ELSE LET variance == expval_map[<<param_index, Head(items).label>>][2]
         IN  AccumulateErr(
                RatAdd(acc, RatScale(AbsCoeff(Head(items).coeff), SqrtRat(variance))),
                Tail(items), param_index)

\* one iteration of the loop over np.ndindex(*bc_param_ind.shape)
AccumulateIndex ==
    /\ ppc = "loop"
    /\ pIdx <= Len(IndexSeq(bc_param_ind.shape))
    /\ LET index == IndexSeq(bc_param_ind.shape)[pIdx]
           param_index == bc_param_ind.data[index]
           items == bc_obs.data[index]
       IN  /\ evs' = [evs EXCEPT ![index] = AccumulateEvs(@, items, param_index)]
           /\ err_accum' =
                [err_accum EXCEPT ![index] = AccumulateErr(@, items, param_index)]
    /\ pIdx' = pIdx + 1
    /\ UNCHANGED <<param_shape, observables, bc_param_ind, bc_obs, expval_map,
                   post_shots, ppc, stds, outsidePost>>

\* stds = variances / np.sqrt(shots); the DataBin and the PubResult
FinishPostprocess ==
    /\ ppc = "loop"
    /\ pIdx > Len(IndexSeq(bc_param_ind.shape))
    /\ stds' = Some([t \in DOMAIN err_accum |->
                        DivideBySqrtShots(err_accum[t], post_shots)])
    /\ ppc' = "returned"
    /\ UNCHANGED <<param_shape, observables, bc_param_ind, bc_obs, expval_map,
                   post_shots, pIdx, evs, err_accum, outsidePost>>

NextPostprocess ==
    \/ AccumulateIndex
    \/ FinishPostprocess

SpecPostprocess == InitPostprocess /\ [][NextPostprocess]_vars

(***************************************************************************)
(* _measurement_circuit and _create_measurement_circuits.  A circuit is    *)
(* the sequence of its operations; site i is qubit i (0-based).            *)
(***************************************************************************)
\* the letter of the Pauli p at site i
Letter(p, i) ==
    IF p.z[i + 1] /\ p.x[i + 1] THEN "Y"
    ELSE IF p.z[i + 1] THEN "Z"
    ELSE IF p.x[i + 1] THEN "X"
    ELSE "I"

\* str(pauli) / pauli.to_label(): the letters, highest site first
Label(p) == [j \in 1..Len(p.z) |-> Letter(p, Len(p.z) - j)]

\* f lists distinct Pauli indices in sorted order (sorted(pauli_strings))
Sorted(f) == \A i \in 1..(Len(f) - 1) : f[i] < f[i + 1]

\* PauliList(sorted(pauli_strings)), for the Paulis over nq sites that f lists
PauliList(f, nq) == [i \in 1..Len(f) |-> PauliOfIndex(f[i], nq)]

\* two Paulis commute qubit-wise: at every site one of them is the identity
\* or both apply the same letter
QubitWiseCommute(p, q) ==
    \A i \in 1..Len(p.z) :
       \/ ~(p.z[i] \/ p.x[i])
       \/ ~(q.z[i] \/ q.x[i])
       \/ (p.z[i] = q.z[i] /\ p.x[i] = q.x[i])

RECURSIVE GreedyGroups(_, _)
\* the greedy grouping: each operator, in order, joins the first group whose
\* members it all commutes with qubit-wise, or opens a new group
GreedyGroups(paulis, groups) ==
    IF paulis = <<>> THEN groups
    ELSE LET p == Head(paulis)
             fits == {g \in 1..Len(groups) :
                        \A m \in 1..Len(groups[g]) : QubitWiseCommute(p, groups[g][m])}
         IN  IF fits = {}
             THEN GreedyGroups(Tail(paulis), Append(groups, <<p>>))
             ELSE LET g == CHOOSE g \in fits : \A h \in fits : g <= h
                  IN  GreedyGroups(Tail(paulis),
                                   [groups EXCEPT ![g] = Append(@, p)])

\* observable.group_commuting(qubit_wise=True)
GroupCommuting(paulis) == GreedyGroups(paulis, <<>>)

\* Pauli((np.logical_or.reduce(obs.z), np.logical_or.reduce(obs.x)))
UnionBasis(obs) ==
    [z |-> [i \in 1..Len(obs[1].z) |-> \E m \in 1..Len(obs) : obs[m].z[i]],
     x |-> [i \in 1..Len(obs[1].x) |-> \E m \in 1..Len(obs) : obs[m].x[i]]]

\* np.arange(pauli.num_qubits)[pauli.z | pauli.x]: the non-identity sites;
\* if not np.any(qubit_indices): qubit_indices = [0]
QubitIndicesAll(pauli) == [i \in 1..Len(pauli.z) |-> i - 1]
QubitIndices(pauli) ==
    LET selected == SortedSeq({i \in 0..(Len(pauli.z) - 1) :
                                 pauli.z[i + 1] \/ pauli.x[i + 1]})
    IN  IF \E c \in 1..Len(selected) : selected[c] # 0
        THEN selected
        ELSE <<0>>

Gate(name, i) == [gate |-> name, qubit |-> i, clbit |-> -1]
Measure(i, clbit) == [gate |-> "measure", qubit |-> i, clbit |-> clbit]

\* the loop body of _measurement_circuit for (clbit, i)
SiteOps(pauli, clbit, i) ==
    (IF pauli.x[i + 1]
     THEN (IF pauli.z[i + 1] THEN <<Gate("sdg", i)>> ELSE <<>>) \o <<Gate("h", i)>>
     ELSE <<>>)
    \o <<Measure(i, clbit)>>

\* _measurement_circuit(num_qubits, pauli): the circuit, with its classical
\* register of name f"__c_{pauli}", and qubit_indices
MeasurementCircuit(nq, pauli) ==
    LET qubit_indices == QubitIndices(pauli)
    IN  [ops |-> Flatten([c \in 1..Len(qubit_indices) |->
                            SiteOps(pauli, c - 1, qubit_indices[c])]),
         num_qubits |-> nq,
         creg |-> [name |-> <<"__c_", Label(pauli)>>,
                   size |-> Len(qubit_indices)],
         indices |-> qubit_indices]

\* PauliList.from_symplectic(obs.z[:, indices], obs.x[:, indices], obs.phase)
RestrictTo(obs, indices) ==
    [m \in 1..Len(obs) |->
        [z |-> [c \in 1..Len(indices) |-> obs[m].z[indices[c] + 1]],
         x |-> [c \in 1..Len(indices) |-> obs[m].x[indices[c] + 1]]]]

\* the groups the first loop of _create_measurement_circuits runs over:
\* the commuting groups, or every Pauli of observable on its own
MeasurementGroupsAlwaysGrouped(paulis, grouping) == GroupCommuting(paulis)
MeasurementGroups(paulis, grouping) ==
    IF grouping THEN GroupCommuting(paulis)
    ELSE [k \in 1..Len(paulis) |-> <<paulis[k]>>]

\* the body of the first loop: the measurement circuit of a group, with its
\* metadata
GroupCircuit(nq, obs, pindex) ==
    LET basis == UnionBasis(obs)
        mc == MeasurementCircuit(nq, basis)
    IN  [ops |-> mc.ops,
         creg |-> mc.creg,
         metadata |-> [orig_paulis |-> obs,
                       meas_paulis |-> RestrictTo(obs, mc.indices),
                       param_index |-> pindex]]

RECURSIVE MergeGates(_)
\* a run of single-qubit gates on one qubit becomes one gate
MergeGates(ops) ==
    IF Len(ops) < 2 THEN ops
    ELSE IF /\ ops[1].gate # "measure"
            /\ ops[2].gate # "measure"
            /\ ops[1].qubit = ops[2].qubit
         THEN MergeGates(<<Gate(<<ops[1].gate, ops[2].gate>>, ops[1].qubit)>>
                         \o SubSeq(ops, 3, Len(ops)))
         ELSE <<Head(ops)>> \o MergeGates(Tail(ops))

\* self._passmanager.run(meas_circuits): Optimize1qGatesDecomposition
RunPassManager(circs) ==
    [c \in 1..Len(circs) |-> [circs[c] EXCEPT !.ops = MergeGates(@)]]

\* the names of the classical registers of the caller's circuit: one plain
\* register, or that and registers named like measurement registers
UserCregs ==
    {{<<"c">>},
     {<<"c">>, <<"__c_", <<"Z">>>>, <<"__c_", <<"I", "X">>>>}}

\* the estimator has been constructed with its options
InitMeasure ==
    /\ abelian_grouping \in BOOLEAN
    /\ mpc = "call"
    /\ observable = <<>>
    /\ num_qubits = 0
    /\ circuit_cregs = {}
    /\ meas_param_index = <<>>
    /\ meas_circuits = <<>>
    /\ cIdx = 1
    /\ preprocessed_circuits = <<>>
    /\ RunIdle
    /\ CircIdle
    /\ EstIdle
    /\ PostIdle
    /\ BatchIdle

\* _create_measurement_circuits(circuit, observable, param_index) is called
\* and runs its first loop
BuildMeasurementCircuits ==
    /\ mpc = "call"
    /\ \E nq \in 1..MaxQubits, k \in 1..MaxOps, cregs \in UserCregs :
          \E f \in [1..k -> 0..(4 ^ nq - 1)] :
             /\ Sorted(f)
             /\ num_qubits' = nq
             /\ observable' = PauliList(f, nq)
             /\ circuit_cregs' = cregs
             /\ meas_param_index' = <<0>>
             /\ LET groups == MeasurementGroups(PauliList(f, nq), abelian_grouping)
                IN  meas_circuits' =
                       [g \in 1..Len(groups) |-> GroupCircuit(nq, groups[g], <<0>>)]
    /\ mpc' = "optimize"
    /\ UNCHANGED <<abelian_grouping, cIdx, preprocessed_circuits, outsideMeas>>

\* meas_circuits = self._passmanager.run(meas_circuits)
UnrollBasisGates ==
    /\ mpc = "optimize"
    /\ meas_circuits' = RunPassManager(meas_circuits)
    /\ cIdx' = 1
    /\ mpc' = "combine"
    /\ UNCHANGED <<observable, num_qubits, circuit_cregs, abelian_grouping,
                   meas_param_index, preprocessed_circuits, outsideMeas>>

\* the measurement circuits whose register name is one of the circuit's
Conflicts(circs, cregs) == {c \in 1..Len(circs) : circs[c].creg.name \in cregs}

\* the loop that combines the measurement circuits with copies of the
\* circuit, up to its return or to the first conflict, which raises QiskitError
CombineCircuits ==
    /\ mpc = "combine"
    /\ LET conflicts == Conflicts(meas_circuits, circuit_cregs)
           last == IF conflicts = {} THEN Len(meas_circuits)
                   ELSE (CHOOSE c \in conflicts : \A d \in conflicts : c <= d) - 1
       IN  /\ preprocessed_circuits' =
                 [c \in 1..last |->
                     [ops |-> meas_circuits[c].ops,
                      cregs |-> circuit_cregs \cup {meas_circuits[c].creg.name},
                      metadata |-> meas_circuits[c].metadata]]
           /\ cIdx' = last + 1
           /\ mpc' = IF conflicts = {} THEN "returned" ELSE "error"
    /\ UNCHANGED <<observable, num_qubits, circuit_cregs, abelian_grouping,
                   meas_param_index, meas_circuits, outsideMeas>>

NextMeasure ==
    \/ BuildMeasurementCircuits
    \/ UnrollBasisGates
    \/ CombineCircuits

SpecMeasure == InitMeasure /\ [][NextMeasure]_vars

(***************************************************************************)
(* _run_pubs on one batch of pubs with their contents: _preprocess_pub,    *)
(* _bind_and_add_measurements, _calc_expval_map.  An operator sum is given *)
(* by the labels that are its keys; a label is its sequence of letters.    *)
(***************************************************************************)
\* the digit of a letter in the order of the labels
LetterDigit(c) ==
    CASE c = "I" -> 0 [] c = "X" -> 1 [] c = "Y" -> 2 [] c = "Z" -> 3

RECURSIVE LabelIndex(_)
\* the place of a label in the sorted order of the labels of its length
LabelIndex(label) ==
    IF label = <<>> THEN 0
    ELSE 4 * LabelIndex(SubSeq(label, 1, Len(label) - 1))
         + LetterDigit(label[Len(label)])

\* PauliList(sorted(pauli_strings))
SortedPauliList(pauli_strings, nq) ==
    PauliList(SortedSeq({LabelIndex(l) : l \in pauli_strings}), nq)

\* param_obs_map[param_index].update(labels) on a defaultdict(set) that
\* keeps insertion order
DictUpdate(pm, param_index, labels) ==
    IF \E e \in 1..Len(pm) : pm[e].param_index = param_index
    THEN [e \in 1..Len(pm) |->
            IF pm[e].param_index = param_index
            THEN [pm[e] EXCEPT !.paulis = @ \cup labels]
            ELSE pm[e]]
    ELSE Append(pm, [param_index |-> param_index, paulis |-> labels])

RECURSIVE ParamObsMap(_, _, _, _)
\* the loop of _preprocess_pub over np.ndindex(*bc_param_ind.shape)
ParamObsMap(indices, bcp, bco, pm) ==
    IF indices = <<>> THEN pm
    ELSE ParamObsMap(Tail(indices), bcp, bco,
                     DictUpdate(pm, bcp.data[Head(indices)], bco.data[Head(indices)]))

\* _create_measurement_circuits(bound_circuit, observable, param_index) for
\* a circuit none of whose registers has the name of a measurement register
CreateMeasurementCircuits(circuit, paulis, pindex, grouping) ==
    LET groups == MeasurementGroups(paulis, grouping)
        meas == RunPassManager([g \in 1..Len(groups) |->
                                  GroupCircuit(circuit.num_qubits, groups[g], pindex)])
    IN  [c \in 1..Len(meas) |->
            [bound |-> pindex,
             ops |-> meas[c].ops,
             cregs |-> circuit.cregs \cup {meas[c].creg.name},
             metadata |-> meas[c].metadata]]

\* _bind_and_add_measurements(circuit, parameter_values, param_obs_map)
BindAndAddMeasurements(circuit, pm, grouping) ==
    Flatten([e \in 1..Len(pm) |->
               CreateMeasurementCircuits(
                   circuit,
                   SortedPauliList(pm[e].paulis, circuit.num_qubits),
                   pm[e].param_index, grouping)])

\* _preprocess_pub(pub), for the k-th pub of the batch: body names the
\* circuit object of each program variant
PreprocessPub(pub, k, grouping) ==
    LET shape == BroadcastShape(pub.param_shape, pub.observables.shape)
        bcp == BroadcastTo(ParamIndices(pub.param_shape), shape)
        bco == BroadcastTo(pub.observables, shape)
        bound == BindAndAddMeasurements(
                     pub.circuit, ParamObsMap(IndexSeq(shape), bcp, bco, <<>>), grouping)
    IN  [circuits |-> [j \in 1..Len(bound) |->
                          [body |-> [pub |-> k, variant |-> j],
                           ops |-> bound[j].ops,
                           cregs |-> bound[j].cregs,
                           bound |-> bound[j].bound,
                           metadata |-> bound[j].metadata]],
         parameter_indices |-> bcp,
         observables |-> bco]

\* the items of _calc_expval_map's dict in the order they are assigned; the
\* pair (expval, variance) of _pauli_expval_with_variance(count, meas_paulis)
\* for a Pauli is named by the histogram and the basis-local Pauli
ExpvalItems(cnts, meta) ==
    Flatten([k \in 1..Min(Len(cnts), Len(meta)) |->
               [m \in 1..Min(Len(meta[k].orig_paulis), Len(meta[k].meas_paulis)) |->
                   [key |-> <<meta[k].param_index, Label(meta[k].orig_paulis[m])>>,
                    value |-> [counts |-> cnts[k],
                               pauli |-> meta[k].meas_paulis[m]]]]])

\* _calc_expval_map(counts, metadata): a later assignment to a key replaces
\* an earlier one
CalcExpvalMap(cnts, meta) ==
    LET items == ExpvalItems(cnts, meta)
    IN  [key \in {items[e].key : e \in 1..Len(items)} |->
            LET es == {e \in 1..Len(items) : items[e].key = key}
            IN  items[CHOOSE e \in es : \A f \in es : f <= e].value]

\* the keys _postprocess_pub looks up in expval_map
Lookups(data) ==
    UNION {{<<data.parameter_indices.data[t], pauli>> : pauli \in data.observables.data[t]}
           : t \in Indices(data.parameter_indices.shape)}

\* start = end, in the second loop of _run_pubs
AdvanceStartNever(st, end) == st
AdvanceStart(st, end) == end

\* the operator sums of the pubs of a batch, by their keys
BatchLabelSets ==
    <<{<<"I", "X">>, <<"Z", "I">>},
      {<<"X", "X">>},
      {<<"I", "I">>, <<"Z", "I">>}>>

\* the shapes of the bindings arrays and of the observables arrays of the
\* pubs of a batch
BatchParamShapes == {<<>>, <<0>>, <<MaxDim>>}
BatchObsShapes == {<<>>, <<1>>, <<MaxDim>>}

\* the pub of a batch with bindings of shape ps and observables of shape os;
\* the entries of the observables array run through BatchLabelSets
BatchPub(ps, os) ==
    [precision |-> Prec(1, 2),
     circuit |-> [num_qubits |-> Len(CHOOSE l \in BatchLabelSets[1] : TRUE),
                  cregs |-> {<<"c">>}],
     param_shape |-> ps,
     observables |->
        [shape |-> os,
         data |-> [t \in Indices(os) |->
                     BatchLabelSets[((Len(os) + IndexRank(t)) % Len(BatchLabelSets)) + 1]]]]

BatchPubs ==
    {BatchPub(ps, os) : <<ps, os>> \in {pr \in BatchParamShapes \X BatchObsShapes :
                                           Compatible(pr[1], pr[2])}}

\* the estimator has been constructed with its options
InitBatch ==
    /\ abelian_grouping \in BOOLEAN
    /\ bpc = "call"
    /\ batch_pubs = <<>>
    /\ preprocessed_data = <<>>
    /\ batch_start = 0
    /\ batch_maps = <<>>
    /\ observable = <<>>
    /\ num_qubits = 0
    /\ circuit_cregs = {}
    /\ meas_param_index = <<>>
    /\ mpc = "idle"
    /\ meas_circuits = <<>>
    /\ cIdx = 1
    /\ preprocessed_circuits = <<>>
    /\ RunIdle
    /\ CircIdle
    /\ EstIdle
    /\ PostIdle

\* self._run_pubs(pubs, shots) is called with the pubs of one batch
CallRunPubs ==
    /\ bpc = "call"
    /\ \E n \in 1..MaxPubs : batch_pubs' \in [1..n -> BatchPubs]
    /\ bpc' = "preprocess"
    /\ UNCHANGED <<preprocessed_data, batch_start, batch_maps, circVars,
                   outsideBatch>>

\* one iteration of the first loop of _run_pubs
PreprocessBatchPub ==
    /\ bpc = "preprocess"
    /\ Len(preprocessed_data) < Len(batch_pubs)
    /\ LET k == Len(preprocessed_data) + 1
           data == PreprocessPub(batch_pubs[k], k, abelian_grouping)
       IN  /\ preprocessed_data' = Append(preprocessed_data, data)
           /\ flat_circuits' = flat_circuits \o data.circuits
    /\ UNCHANGED <<batch_pubs, batch_start, bpc, batch_maps,
                   metadata, pos, jobs, run_result, counts, outsideBatch>>

\* _run_circuits(flat_circuits, backend, shots=shots, ...) on a backend
\* without max_circuits, and _prepare_counts(run_result)
RunBatchCircuits ==
    /\ bpc = "preprocess"
    /\ Len(preprocessed_data) = Len(batch_pubs)
    /\ LET cleared == ClearMetadata(flat_circuits)
           res == <<BackendRun(cleared, Shots(batch_pubs[1].precision))>>
       IN  /\ metadata' = CollectMetadata(flat_circuits)
           /\ flat_circuits' = cleared
           /\ run_result' = res
           /\ counts' = PrepareCounts(res)
    /\ batch_start' = 0
    /\ bpc' = "postprocess"
    /\ UNCHANGED <<batch_pubs, preprocessed_data, batch_maps, pos, jobs,
                   outsideBatch>>

\* one iteration of the second loop of _run_pubs: the slices, the
\* expval_map, and the lookups of _postprocess_pub, which raise KeyError if
\* a key is missing
PostprocessBatchPub ==
    /\ bpc = "postprocess"
    /\ Len(batch_maps) < Len(batch_pubs)
    /\ LET data == preprocessed_data[Len(batch_maps) + 1]
           end == batch_start + Len(data.circuits)
           map == CalcExpvalMap(Slice(counts, batch_start, end),
                                Slice(metadata, batch_start, end))
       IN  /\ batch_maps' = Append(batch_maps,
                                   [start |-> batch_start, end |-> end,
                                    expval_map |-> map])
           /\ batch_start' = AdvanceStart(batch_start, end)
           /\ bpc' = IF Lookups(data) \subseteq DOMAIN map
                     THEN bpc ELSE "error"
    /\ UNCHANGED <<batch_pubs, preprocessed_data, circVars, outsideBatch>>

\* return results
ReturnBatch ==
    /\ bpc = "postprocess"
    /\ Len(batch_maps) = Len(batch_pubs)
    /\ bpc' = "done"
    /\ UNCHANGED <<batch_pubs, preprocessed_data, batch_start, batch_maps,
                   circVars, outsideBatch>>

NextBatch ==
    \/ CallRunPubs
    \/ PreprocessBatchPub
    \/ RunBatchCircuits
    \/ PostprocessBatchPub
    \/ ReturnBatch

SpecBatch == InitBatch /\ [][NextBatch]_vars

(***************************************************************************)
(* Claims about run / _run / _run_circuits, checked under SpecRun.         *)
(***************************************************************************)
\* s is ceil(1 / p^2) for the positive rational p = n/d
IsCeilOfInverseSquare(s, p) ==
    /\ s * p.n * p.n >= p.d * p.d
    /\ (s - 1) * p.n * p.n < p.d * p.d

\* r is the PubResult computed from input pub i: it carries pub i's precision
\* and circuit metadata, and was computed from the histograms and the metadata
\* of exactly pub i's program variants, in their order
ComputedFromPub(r, i) ==
    /\ r.metadata.target_precision = pubs[i].precision
    /\ r.metadata.circuit_metadata = pubs[i].circuit
    /\ Len(r.data.counts) = NumVariants(pubs[i])
    /\ \A k \in 1..Len(r.data.counts) :
          r.data.counts[k].of = [pub |-> i, variant |-> k]
    /\ r.data.metadata = [k \in 1..NumVariants(pubs[i]) |->
                            {<<"pub", i>>, <<"group", k>>}]

\* C1: whatever the mix of precisions, every PubResult that _run has stored at
\* position i is the one computed from input pub i, and the PrimitiveResult it
\* returns holds exactly one PubResult per input pub, in input order.
C1_ResultsInInputOrder ==
    /\ \A i \in 1..Len(results) :
          results[i] # None => ComputedFromPub(results[i][1], i)
    /\ rpc = "done" =>
          /\ returned # None
          /\ Len(returned[1].pub_results) = Len(pubs)
          /\ \A i \in 1..Len(pubs) :
                /\ returned[1].pub_results[i] # None
                /\ ComputedFromPub(returned[1].pub_results[i][1], i)

\* C1 witness: three pubs, two shot-count batches, the first batch made of the
\* non-adjacent pubs 1 and 3, and the result has been returned.
C1_Witness ==
    /\ rpc = "done"
    /\ Len(pubs) = 3
    /\ Len(pub_dict) = 2
    /\ pub_dict[1].lst = <<1, 3>>
    /\ pubs[1] # pubs[3]

\* C2: if any pub has precision 0 or negative, run ends in the validation
\* error, at the first such pub, and no job was submitted, no _run_pubs
\* dispatch and no backend.run call happened.
C2_InvalidPrecisionRejectedBeforeExecution ==
    LET bad == {i \in 1..Len(pubs) : pubs[i].precision.n <= 0}
    IN  bad # {} =>
          /\ ~submitted
          /\ dispatches = <<>>
          /\ backendCalls = <<>>
          /\ rpc \in {"validate", "error"}
          /\ \A i \in bad : vIdx <= i
          /\ rpc = "error" => vIdx \in bad

\* C2 witness: the validation error raised for a pub of precision 0 in the
\* last position, after two valid pubs.
C2_Witness ==
    /\ rpc = "error"
    /\ Len(pubs) = 3
    /\ vIdx = 3
    /\ pubs[3].precision.n = 0

\* the batches are complete once the first loop of _run has ended
Grouped == rpc \in {"batches", "run_circuits", "submit", "submit_all",
                    "counts", "post", "done"}

\* C3: every pub is in exactly one batch, whose shot count is
\* ceil(1/precision^2) of the pub; two pubs share a batch iff their shot counts
\* are equal; within a batch the pubs are in input order; each batch is
\* dispatched to _run_pubs once, and every backend.run call carries the shot
\* count of the pubs whose circuits it runs.
C3_BatchesByShots ==
    /\ Grouped =>
          /\ \A i \in 1..Len(pubs) :
                \E e \in 1..Len(pub_dict) :
                   /\ \E k \in 1..Len(pub_dict[e].lst) : pub_dict[e].lst[k] = i
                   /\ IsCeilOfInverseSquare(pub_dict[e].shots, pubs[i].precision)
          /\ \A e, f \in 1..Len(pub_dict) :
                e # f => pub_dict[e].shots # pub_dict[f].shots
          /\ \A e \in 1..Len(pub_dict) :
                /\ pub_dict[e].lst # <<>>
                /\ \A k \in 1..Len(pub_dict[e].lst) :
                      /\ pub_dict[e].lst[k] \in 1..Len(pubs)
                      /\ IsCeilOfInverseSquare(pub_dict[e].shots,
                                               pubs[pub_dict[e].lst[k]].precision)
                /\ \A j, k \in 1..Len(pub_dict[e].lst) :
                      j < k => pub_dict[e].lst[j] < pub_dict[e].lst[k]
    /\ \A e \in 1..Len(dispatches) :
          /\ e <= Len(pub_dict)
          /\ dispatches[e] = pub_dict[e]
    /\ rpc = "done" => Len(dispatches) = Len(pub_dict)
    /\ \A c \in 1..Len(backendCalls) :
          \A k \in 1..Len(backendCalls[c].circuits) :
             IsCeilOfInverseSquare(
                backendCalls[c].shots,
                pubs[backendCalls[c].circuits[k].body.pub].precision)

\* C3 witness: a finished run of three pubs in which two pubs of different
\* precisions (2/3 and 3/5, both 3 shots) share a batch and the third pub
\* (1/2, 4 shots) has a batch of its own.
C3_Witness ==
    /\ rpc = "done"
    /\ Len(pubs) = 3
    /\ Len(pub_dict) = 2
    /\ \E e \in 1..2 :
          /\ Len(pub_dict[e].lst) = 2
          /\ pubs[pub_dict[e].lst[1]].precision
                # pubs[pub_dict[e].lst[2]].precision

\* the backend.run calls of the current invocation of _run_circuits
CurrentCalls(n) ==
    SubSeq(backendCalls, Len(backendCalls) - n + 1, Len(backendCalls))

\* the circuits submitted by a sequence of backend.run calls, in order
Submitted(calls) == Flatten([c \in 1..Len(calls) |-> calls[c].circuits])

\* C4: _run_circuits submits consecutive chunks of at most max_circuits
\* variants (all of them in one call when max_circuits is None or 0) that
\* cover every variant exactly once in order, and after _prepare_counts there
\* is one flat list of n histograms, the k-th being the histogram of the k-th
\* submitted variant, with the k-th metadata entry the original metadata of
\* the k-th variant.
C4_ChunksCoverInOrder ==
    /\ rpc = "submit" =>
          /\ Submitted(CurrentCalls(Len(jobs)))
                = SubSeq(flat_circuits, 1, Min(pos, Len(flat_circuits)))
          /\ \A c \in 1..Len(jobs) :
                Len(CurrentCalls(Len(jobs))[c].circuits) \in 1..max_circuits
    /\ rpc = "post" =>
          LET calls == CurrentCalls(Len(run_result))
              original == FlatCircuits(pub_dict[bIdx].lst)
              n == Len(original)
          IN  /\ Submitted(calls) = flat_circuits
              /\ Len(flat_circuits) = n
              /\ max_circuits # 0 =>
                    \A c \in 1..Len(calls) :
                       Len(calls[c].circuits) \in 1..max_circuits
              /\ max_circuits = 0 => Len(calls) = 1
              /\ Len(counts) = n
              /\ \A k \in 1..Len(counts) :
                    /\ counts[k].of = original[k].body
                    /\ counts[k].shots = pub_dict[bIdx].shots
              /\ Len(metadata) = n
              /\ \A k \in 1..Len(metadata) :
                    metadata[k] = original[k].metadata

\* C4 witness: three variants on a backend of capacity 2: a full chunk, then
\* a chunk of one variant (whose get_counts is a single histogram), flattened.
C4_Witness ==
    /\ rpc = "post"
    /\ max_circuits = 2
    /\ Len(flat_circuits) = 3
    /\ Len(run_result) = 2
    /\ Len(counts) = 3
    /\ metadata[3] # EmptyMetadata

(***************************************************************************)
(* Claims about _pauli_expval_with_variance, checked under SpecExpval.     *)
(***************************************************************************)
\* the number of characters of the measurement register in a key
RegisterLen(key) ==
    IF \A i \in 1..Len(key) : key[i] # " " THEN Len(key)
    ELSE (CHOOSE i \in 1..Len(key) :
             key[i] = " " /\ \A j \in 1..(i - 1) : key[j] # " ") - 1

\* classical bit j (0 the least significant) of the measurement register
OutcomeBit(key, j) ==
    IF j < RegisterLen(key) THEN key[RegisterLen(key) - j] ELSE "0"

\* (-1)^popcount(m & b) for the operator p and the outcome of the key
SpecSign(p, key) ==
    LET hit == {j \in 0..(Len(p.z) - 1) :
                  (p.z[j + 1] \/ p.x[j + 1]) /\ OutcomeBit(key, j) = "1"}
    IN  IF Cardinality(hit) % 2 = 0 THEN 1 ELSE -1

RECURSIVE SpecNumerator(_, _)
\* sum over the outcomes b of f_b * sign(m, b)
SpecNumerator(p, items) ==
    IF items = <<>> THEN 0
    ELSE Head(items).freq * SpecSign(p, Head(items).key)
         + SpecNumerator(p, Tail(items))

RECURSIVE TotalFreq(_)
\* sum over the outcomes b of f_b
TotalFreq(items) ==
    IF items = <<>> THEN 0 ELSE Head(items).freq + TotalFreq(Tail(items))

\* C5: for a histogram of positive total frequency, the expectation returned
\* for every operator is (sum_b f_b * (-1)^popcount(m & b)) / (sum_b f_b), it
\* lies in [-1, 1], and the variance returned is 1 - expectation^2, in [0, 1].
C5_ExpectationAndVariance ==
    (epc = "returned" /\ TotalFreq(est_counts) > 0) =>
        /\ Len(expvals) = Len(est_paulis)
        /\ variances # None
        /\ Len(variances[1]) = Len(est_paulis)
        /\ \A k \in 1..Len(est_paulis) :
              LET e == expvals[k]
                  v == variances[1][k]
              IN  /\ e.kind = "finite"
                  /\ e.n * TotalFreq(est_counts)
                        = SpecNumerator(est_paulis[k], est_counts) * e.d
                  /\ -e.d <= e.n /\ e.n <= e.d
                  /\ v.kind = "finite"
                  /\ v.n * (e.d * e.d) = (e.d * e.d - e.n * e.n) * v.d
                  /\ 0 <= v.n /\ v.n <= v.d

\* C5 witness: a histogram with another register in its keys, three shots
\* over two outcomes, and an operator whose expectation is -1/3.
C5_Witness ==
    /\ epc = "returned"
    /\ Len(est_paulis) = 4
    /\ Len(est_counts) = 2
    /\ Len(est_counts[1].key) = 3
    /\ denom = 3
    /\ \E k \in 1..Len(est_paulis) : expvals[k] = Rat(-1, 3)

\* C6: the estimator never returns an expectation/variance pair for a
\* histogram whose total frequency is 0 (it fails with a computation error).
C6_ZeroTotalNeverReturns ==
    epc = "returned" => TotalFreq(est_counts) > 0

(***************************************************************************)
(* Claims about _postprocess_pub, checked under SpecPostprocess.           *)
(***************************************************************************)
\* the binding index and the operator sum at a broadcast index
BindingAt(index) == SourceIndex(param_shape, index)
OperatorSumAt(index) == observables.data[SourceIndex(observables.shape, index)]

RECURSIVE SumCoeffExpectation(_, _)
\* the complex sum over the pairs (label, coeff) of coeff * expectation
SumCoeffExpectation(items, binding) ==
    IF items = <<>> THEN Complex(Rat(0, 1), Rat(0, 1))
    ELSE LET e == expval_map[<<binding, Head(items).label>>][1]
             c == Head(items).coeff
             rest == SumCoeffExpectation(Tail(items), binding)
         IN  Complex(RatAdd(RatScale(c.re, e), rest.re),
                     RatAdd(RatScale(c.im, e), rest.im))

RECURSIVE SumAbsCoeffSqrtVariance(_, _)
\* the sum over the pairs (label, coeff) of |coeff| * sqrt(variance)
SumAbsCoeffSqrtVariance(items, binding) ==
    IF items = <<>> THEN Rat(0, 1)
    ELSE LET v == expval_map[<<binding, Head(items).label>>][2]
             c == Head(items).coeff
             modulus == CHOOSE r \in 0..(c.re * c.re + c.im * c.im) :
                           r * r = c.re * c.re + c.im * c.im
             root == CHOOSE q \in {Rat(a, b) : a \in 0..v.d, b \in 1..v.d} :
                        q.n * q.n * v.d = v.n * q.d * q.d
         IN  RatAdd(RatScale(modulus, root),
                    SumAbsCoeffSqrtVariance(Tail(items), binding))

\* evs and stds have one entry per index of the broadcast shape, and the
\* right values there
AggregatesAsSpecified ==
    LET shape == BroadcastShape(param_shape, observables.shape)
    IN  /\ DOMAIN evs = Indices(shape)
        /\ stds # None
        /\ DOMAIN stds[1] = Indices(shape)
        /\ \A index \in Indices(shape) :
              LET want == SumCoeffExpectation(OperatorSumAt(index), BindingAt(index))
                  err == SumAbsCoeffSqrtVariance(OperatorSumAt(index), BindingAt(index))
              IN  /\ RatEq(evs[index].re, want.re)
                  /\ RatEq(evs[index].im, want.im)
                  /\ stds[1][index].n * stds[1][index].n * err.d * err.d * post_shots
                        = err.n * err.n * stds[1][index].d * stds[1][index].d
                  /\ stds[1][index].n * stds[1][index].d >= 0

\* C7: for every pub, evs and stds have exactly one entry per index of the
\* broadcast shape; evs[index] is the sum over the (label, coeff) pairs of
\* the operator sum there of coeff * expectation(binding index, label), and
\* stds[index] is (sum of |coeff| * sqrt(variance)) / sqrt(shots).
C7_AggregationPerBroadcastIndex ==
    ppc = "returned" => AggregatesAsSpecified

\* C8: with complex coefficients the reported expectation value keeps its
\* imaginary part: the imaginary part of evs[index] is that of the complex
\* sum of coeff * expectation.
C8_ImaginaryPartRetained ==
    ppc = "returned" =>
        \A index \in DOMAIN evs :
           RatEq(evs[index].im,
                 SumCoeffExpectation(OperatorSumAt(index), BindingAt(index)).im)

\* every coefficient of the pub's operator sums is real
RealCoefficients ==
    \A t \in DOMAIN observables.data :
       \A k \in 1..Len(observables.data[t]) : observables.data[t][k].coeff.im = 0

\* With real coefficients only, the aggregation is as C7 states it.
PostprocessRealCoefficients ==
    (ppc = "returned" /\ RealCoefficients) => AggregatesAsSpecified

\* a pub of binding shape (2,) and observables shape (1,) with real
\* coefficients has been postprocessed at 4 shots
PostprocessRealCoefficientsWitness ==
    /\ ppc = "returned"
    /\ RealCoefficients
    /\ param_shape = <<2>>
    /\ observables.shape = <<1>>
    /\ Len(observables.data[<<0>>]) = 2
    /\ post_shots = 4

(***************************************************************************)
(* Claims about _create_measurement_circuits and _measurement_circuit,     *)
(* checked under SpecMeasure.                                               *)
(***************************************************************************)
\* the first loop has run
MeasurementCircuitsBuilt == mpc \in {"optimize", "combine", "error", "returned"}

\* the circuits are as _measurement_circuit returned them
BasisChangeCircuitsBuilt == mpc = "optimize"

\* the measurement groups, as the circuits' metadata record them
GroupOf(c) == meas_circuits[c].metadata.orig_paulis

\* at every site where both are non-identity they apply the same letter
SameLetterWhereBothAct(p, q) ==
    \A i \in 0..(num_qubits - 1) :
       (Letter(p, i) # "I" /\ Letter(q, i) # "I") => Letter(p, i) = Letter(q, i)

\* every operator of observable is a member of exactly one group, once
GroupsPartition ==
    /\ \A k \in 1..Len(observable) :
          Cardinality({<<c, m>> \in (1..Len(meas_circuits)) \X (1..MaxOps) :
                          /\ m <= Len(GroupOf(c))
                          /\ GroupOf(c)[m] = observable[k]}) = 1
    /\ \A c \in 1..Len(meas_circuits) :
          /\ Len(GroupOf(c)) >= 1
          /\ \A m \in 1..Len(GroupOf(c)) :
                \E k \in 1..Len(observable) : GroupOf(c)[m] = observable[k]

\* C9: the measurement groups partition the needed-operator set; with
\* abelian_grouping on every two members of a group commute qubit-wise, with
\* abelian_grouping off every group is a singleton, one per operator.
C9_GroupsPartitionAndCommute ==
    MeasurementCircuitsBuilt =>
       /\ GroupsPartition
       /\ abelian_grouping =>
             \A c \in 1..Len(meas_circuits) :
                \A m, n \in 1..Len(GroupOf(c)) :
                   SameLetterWhereBothAct(GroupOf(c)[m], GroupOf(c)[n])
       /\ ~abelian_grouping =>
             /\ Len(meas_circuits) = Len(observable)
             /\ \A c \in 1..Len(meas_circuits) : GroupOf(c) = <<observable[c]>>

\* grouping is on and two operators that act on different sites with
\* different letters share the one group
C9_Witness ==
    /\ mpc = "returned"
    /\ abelian_grouping
    /\ num_qubits = 2
    /\ Len(meas_circuits) = 1
    /\ Len(GroupOf(1)) = 2
    /\ Label(GroupOf(1)[1]) = <<"I", "X">>
    /\ Label(GroupOf(1)[2]) = <<"Z", "I">>

\* the sites measured, and the sites rotated, by a basis-change circuit
MeasuredSites(c) ==
    {meas_circuits[c].ops[o].qubit :
        o \in {o \in 1..Len(meas_circuits[c].ops) :
                  meas_circuits[c].ops[o].gate = "measure"}}
RotatedSites(c) ==
    {meas_circuits[c].ops[o].qubit :
        o \in {o \in 1..Len(meas_circuits[c].ops) :
                  meas_circuits[c].ops[o].gate # "measure"}}

\* the sites where at least one member of the group is non-identity
Support(c) ==
    {i \in 0..(num_qubits - 1) :
        \E m \in 1..Len(GroupOf(c)) : Letter(GroupOf(c)[m], i) # "I"}

\* C10 as stated: the measured sites of a group's basis-change circuit are
\* exactly the sites where some member is non-identity, and no other site
\* is rotated or measured.
C10_MeasuresExactlySupport ==
    BasisChangeCircuitsBuilt =>
       \A c \in 1..Len(meas_circuits) :
          /\ MeasuredSites(c) = Support(c)
          /\ RotatedSites(c) \subseteq Support(c)

\* C10 amended: the measured sites are exactly the sites where some member
\* is non-identity, and rotations fall only on those sites, except that a
\* group whose members are all identity measures site 0 without a rotation.
C10_MeasuresSupportOrSiteZero ==
    BasisChangeCircuitsBuilt =>
       \A c \in 1..Len(meas_circuits) :
          /\ RotatedSites(c) \subseteq Support(c)
          /\ IF Support(c) = {}
             THEN MeasuredSites(c) = {0}
             ELSE MeasuredSites(c) = Support(c)

\* one circuit measures only site 1 after rotating it, another belongs to
\* an all-identity group and measures site 0
C10_Witness ==
    /\ BasisChangeCircuitsBuilt
    /\ num_qubits = 2
    /\ \E c \in 1..Len(meas_circuits) :
          /\ Support(c) = {}
          /\ MeasuredSites(c) = {0}
    /\ \E c \in 1..Len(meas_circuits) :
          /\ Support(c) = {1}
          /\ MeasuredSites(c) = {1}
          /\ RotatedSites(c) = {1}

(***************************************************************************)
(* Claims about failures of _run, checked under SpecRunFailing.            *)
(***************************************************************************)
\* the pubs whose PubResult has been constructed
Constructed == {i \in 1..Len(results) : results[i] # None}

\* the pubs of the batches _run has completed
CompletedPubs ==
    UNION {{pub_dict[e].lst[k] : k \in 1..Len(pub_dict[e].lst)} :
             e \in 1..(bIdx - 1)}

\* a PrimitiveResult is returned exactly when _run is done, and it holds a
\* PubResult for every pub
ReturnsAllOrNothing ==
    /\ returned # None <=> rpc = "done"
    /\ rpc = "done" =>
          /\ Len(returned[1].pub_results) = Len(pubs)
          /\ \A i \in 1..Len(pubs) : returned[1].pub_results[i] # None

RequiredPairs(pub) ==
    UNION {{<<SourceIndex(pub.param_shape, t), label>> :
               label \in pub.observables.data[SourceIndex(pub.observables.shape, t)]}
           : t \in Indices(BroadcastShape(pub.param_shape, pub.observables.shape))}

\* the slices [start, end) of the pubs postprocessed so far are contiguous
\* and disjoint, each as long as its pub's list of program variants, and
\* they cover the flat list once every pub is postprocessed
SlicesPartition ==
    /\ \A k \in 1..Len(batch_maps) :
          /\ batch_maps[k].start = IF k = 1 THEN 0 ELSE batch_maps[k - 1].end
          /\ batch_maps[k].end
                = batch_maps[k].start + Len(preprocessed_data[k].circuits)
          /\ batch_maps[k].end <= Len(counts)
    /\ bpc = "done" =>
          /\ Len(batch_maps) = Len(batch_pubs)
          /\ batch_maps[Len(batch_maps)].end = Len(counts)

\* the slice of pub k holds the histograms and the metadata of the program
\* variants of pub k, in their order, and the table is built from them
BuiltFromOwnVariants(k) ==
    /\ \A j \in 1..(batch_maps[k].end - batch_maps[k].start) :
          /\ counts[batch_maps[k].start + j].of = [pub |-> k, variant |-> j]
          /\ metadata[batch_maps[k].start + j]
                = preprocessed_data[k].circuits[j].metadata
    /\ \A key \in DOMAIN batch_maps[k].expval_map :
          batch_maps[k].expval_map[key].counts.of.pub = k

\* C12: within a batch whose backend returns one histogram per submitted
\* variant, the per-pub slices are contiguous, disjoint and cover the flat
\* list, the expectation table of a pub is built only from that pub's own
\* variants, its keys are the (binding index, original label) pairs that the
\* pub's broadcast requires, and no lookup of _postprocess_pub misses.
C12_TableFromOwnVariantsAndComplete ==
    Len(counts) = Len(flat_circuits) =>
       /\ bpc # "error"
       /\ SlicesPartition
       /\ \A k \in 1..Len(batch_maps) :
             /\ BuiltFromOwnVariants(k)
             /\ DOMAIN batch_maps[k].expval_map = RequiredPairs(batch_pubs[k])

\* three pubs, each with program variants and the second with several, under
\* grouping, and a key of the third pub's table whose original label differs
\* from the basis-local operator that was estimated
C12_Witness ==
    /\ bpc = "done"
    /\ abelian_grouping
    /\ Len(batch_pubs) = 3
    /\ batch_maps[1].end >= 1
    /\ batch_maps[2].end - batch_maps[2].start >= 2
    /\ \E key \in DOMAIN batch_maps[3].expval_map :
          Label(batch_maps[3].expval_map[key].pauli) # key[2]

=============================================================================
